---- MODULE Spec2Model ----
(***************************************************************************)
(* A model of src/src/decode.rs: the Decoder of a video stream.  The      *)
(* Decoder reads packets from a Reader, feeds them to a codec, pulls       *)
(* frames, scales them, and drains the codec when it is dropped.           *)
(*                                                                         *)
(* Two specifications share the variables:                                 *)
(*   SpecNew  construction (Decoder::from_reader) over all bounded inputs; *)
(*   Spec     the life of one constructed Decoder: decode calls, the       *)
(*            iterator forms, and Drop.                                    *)
(***************************************************************************)
EXTENDS Integers, Sequences, FiniteSets, TLC

VARIABLES
  args,          \* the inputs of from_reader: codec parameters and resize
  pc,            \* the position of the program
  ctor,          \* the result of from_reader: "none", "Ok" or an error
  size,          \* Decoder.size
  scaler,        \* Decoder.scaler: its configuration, or NoScaler
  scalerGets,    \* calls of AvScaler::get made by from_reader
  resized,       \* from_reader's locals (resize_width, resize_height)
  decoder_time_base, \* Decoder.decoder_time_base
  readerPos,     \* packets the Reader has yielded so far
  packet,        \* decode_raw's local `packet`
  sent,          \* the packets passed to decoder.send_packet, in order
  emitted,       \* frames the codec has handed to decode calls
  frame,         \* decode_raw's local `frame`
  frame_scaled,  \* decode_raw's local `frame_scaled`
  via,           \* the public operation the running call was entered by
  iter,          \* the live iterator: "none", "decode_raw_iter", "decode_iter"
  yielded,       \* the items the live iterator has yielded
  iterPulls,     \* next() calls on the live iterator
  iterBase,      \* `calls` when the live iterator was made
  iterEnded,     \* whether next() of the live iterator has returned None
  calls,         \* decode_raw calls started
  result,        \* what the last call returned
  pulled,        \* the frame the codec handed to the running/last call
  callReads,     \* reader.read calls that yielded a packet, this call
  callFeeds,     \* send_packet calls, this call
  callPulls,     \* receive_frame calls, this call
  callScales,    \* scaler.run calls, this call
  lastPull,      \* the codec's answer to the latest receive_frame
  lastOutcome,   \* how the last call ended
  lastRead,      \* the Reader's answer to the latest read of this call
  lastFeed,      \* the codec's answer to the latest send_packet of this call
  lastScale,     \* the Scaler's answer to scaler.run of this call
  okCalls,       \* decode_raw calls that returned Ok
  scalerFails,   \* decode_raw calls that ended at a Scaler failure
  eofSent,       \* send_eof calls
  eofAccepted,   \* whether the codec accepted send_eof
  drainPulls,    \* receive_frame calls made by Drop
  drainFrames,   \* no drain pull so far has answered EAGAIN
  drainEagain,   \* no drain pull so far has yielded a frame
  drainEnd       \* why the drain ended

vars ==
  << args, pc, ctor, size, scaler, scalerGets, resized, decoder_time_base,
     readerPos, packet, sent, lastRead, lastFeed, lastScale, okCalls,
     scalerFails,
     emitted, frame, frame_scaled, via, iter, yielded, iterPulls, iterBase,
     iterEnded, calls, result, pulled, callReads, callFeeds, callPulls, callScales, lastPull, lastOutcome,
     eofSent, eofAccepted, drainPulls, drainFrames, drainEagain, drainEnd >>

(***************************************************************************)
(* Bounds of the model.                                                    *)
(***************************************************************************)
MaxDim == 3
MaxPackets == 3
MaxCalls == 3

(***************************************************************************)
(* f32 arithmetic, as far as calculate_fit_dims uses it.  A value is       *)
(* <<"nan">>, <<"inf">>, <<"zero">> or <<"fin", m, k>>: m / 2^k with a    *)
(* 24-bit mantissa 2^23 <= m < 2^24.  Results are rounded to nearest,      *)
(* ties to even.  The u32 operands are below 2^31 and every intermediate   *)
(* value is kept below 2^31, the integers of the checker.                  *)
(***************************************************************************)
F32NaN == <<"nan">>
F32Inf == <<"inf">>
F32Zero == <<"zero">>

\* q + r/d, 0 <= r < d, rounded to an integer, ties to even
RoundHalfEven(q, r, d) ==
  IF 2 * r < d THEN q
  ELSE IF 2 * r > d THEN q + 1
  ELSE IF q % 2 = 0 THEN q ELSE q + 1

F32Norm(m, k) ==
  IF m = 2^24 THEN <<"fin", 2^23, k - 1>> ELSE <<"fin", m, k>>

\* the low bits a u32 of 2^24 or more loses as an f32
RECURSIVE F32Shift(_, _)
F32Shift(n, s) == IF n \div (2^s) < 2^24 THEN s ELSE F32Shift(n, s + 1)

\* m / 2^k with the mantissa brought up to 24 bits
RECURSIVE F32Up(_, _)
F32Up(m, k) == IF m >= 2^23 THEN <<"fin", m, k>> ELSE F32Up(2 * m, k + 1)

\* n as f32: exact below 2^24, rounded to 24 bits above
U32ToF32(n) ==
  IF n = 0 THEN F32Zero
  ELSE IF n < 2^24 THEN F32Up(n, 0)
  ELSE LET s == F32Shift(n, 1)
       IN  F32Norm(RoundHalfEven(n \div (2^s), n % (2^s), 2^s), 0 - s)

\* long division: q + r/den is num/den * 2^k; one more bit until q has 24
RECURSIVE F32Quotient(_, _, _, _)
F32Quotient(q, r, den, k) ==
  IF q >= 2^23 THEN F32Norm(RoundHalfEven(q, r, den), k)
  ELSE F32Quotient(2 * q + (IF 2 * r >= den THEN 1 ELSE 0),
                   (2 * r) % den, den, k + 1)

\* the f32 nearest to num / den, for 0 < num, den < 2^24
F32FromRatio(num, den) == F32Quotient(num \div den, num % den, den, 0)

\* (a as f32) / (b as f32)
F32Div(a, b) ==
  IF b = 0 THEN (IF a = 0 THEN F32NaN ELSE F32Inf)
  ELSE IF a = 0 THEN F32Zero
  ELSE LET x == U32ToF32(a)
           y == U32ToF32(b)
           q == F32FromRatio(x[2], y[2])
       IN  <<"fin", q[2], q[3] + x[3] - y[3]>>

F32Less(x, y) ==
  CASE x[1] = "zero" -> y[1] \in {"fin", "inf"}
    [] x[1] = "inf" -> FALSE
    [] x[1] = "fin" ->
         \/ y[1] = "inf"
         \/ /\ y[1] = "fin"
            /\ \/ x[3] > y[3]
               \/ x[3] = y[3] /\ x[2] < y[2]
    [] OTHER -> FALSE

\* f32::min: a NaN operand yields the other operand
F32Min(x, y) ==
  IF x = F32NaN THEN y
  ELSE IF y = F32NaN THEN x
  ELSE IF F32Less(y, x) THEN y ELSE x

\* (w as f32) * f.  The exact product of the two mantissas, 2^46 or more
\* and below 2^48, is held in two parts, hi * 2^24 + lo, computed from the
\* 12-bit halves of the mantissas.
F32MulU32(w, f) ==
  CASE f = F32NaN -> F32NaN
    [] f = F32Inf -> IF w = 0 THEN F32NaN ELSE F32Inf
    [] f = F32Zero -> F32Zero
    [] OTHER ->
         IF w = 0 THEN F32Zero
         ELSE LET x == U32ToF32(w)
                  a1 == x[2] \div (2^12)
                  a0 == x[2] % (2^12)
                  b1 == f[2] \div (2^12)
                  b0 == f[2] % (2^12)
                  mid == a1 * b0 + a0 * b1
                  low == (mid % (2^12)) * (2^12) + a0 * b0
                  lo == low % (2^24)
                  hi == a1 * b1 + (mid \div (2^12)) + (low \div (2^24))
                  k == x[3] + f[3]
              IN  IF hi >= 2^23
                    THEN F32Norm(RoundHalfEven(hi, lo, 2^24), k - 24)
                    ELSE F32Norm(RoundHalfEven(2 * hi + (lo \div (2^23)),
                                               lo % (2^23), 2^23), k - 23)

\* x as u32: truncation toward zero, saturating, NaN to 0
F32ToU32(x) ==
  CASE x = F32NaN -> 0
    [] x = F32Zero -> 0
    [] x = F32Inf -> (2^32) - 1
    [] OTHER ->
         IF x[3] > 30 THEN 0
         ELSE IF x[3] >= 0 THEN x[2] \div (2^(x[3]))
         ELSE x[2] * (2^(0 - x[3]))

(***************************************************************************)
(* calculate_fit_dims and Resize.                                          *)
(***************************************************************************)
\* a slip: the picture is scaled up to the box when it already fits
calculate_fit_dims_Upscales(dims, fit_dims) ==
  LET f == F32Min(F32Div(fit_dims[1], dims[1]), F32Div(fit_dims[2], dims[2]))
  IN  <<F32ToU32(F32MulU32(dims[1], f)), F32ToU32(F32MulU32(dims[2], f))>>

calculate_fit_dims(dims, fit_dims) ==
  LET w == dims[1]
      h == dims[2]
      w_max == fit_dims[1]
      h_max == fit_dims[2]
  IN  IF w_max >= w /\ h_max >= h THEN <<w, h>>
      ELSE LET wf == F32Div(w_max, w)
               hf == F32Div(h_max, h)
               f == F32Min(wf, hf)
           IN  <<F32ToU32(F32MulU32(w, f)), F32ToU32(F32MulU32(h, f))>>

Dims == 0..MaxDim

Resize ==
  {<<"Exact", w, h>> : w \in Dims, h \in Dims}
    \cup {<<"Fit", w, h>> : w \in Dims, h \in Dims}

NoResize == <<"None">>

\* resize.map(..).unwrap_or((decoder.width(), decoder.height()))
resize_dims(resize, width, height) ==
  CASE resize[1] = "Exact" -> <<resize[2], resize[3]>>
    [] resize[1] = "Fit" ->
         calculate_fit_dims(<<width, height>>, <<resize[2], resize[3]>>)
    [] OTHER -> <<width, height>>

(***************************************************************************)
(* Values.                                                                 *)
(***************************************************************************)
\* AV_NOPTS_VALUE: the most negative stamp (i64::MIN in the program)
NoPts == 0 - (2^30)
EAGAIN == "EAGAIN"
FRAME_PIXEL_FORMAT == "RGB24"
PixelNone == "None"

None == <<>>
Some(x) == <<x>>

NoScaler ==
  [built |-> FALSE, src_format |-> PixelNone, src_w |-> 0, src_h |-> 0,
   dst_format |-> PixelNone, dst_w |-> 0, dst_h |-> 0]

\* RawFrame::empty()
EmptyFrame ==
  [id |-> 0, format |-> PixelNone, w |-> 0, h |-> 0, pts |-> NoPts,
   pkt_dts |-> NoPts, scaled |-> FALSE]

\* Error::BackendError(err), and `err.into()` for an AvError
BackendError(code) == [type |-> "BackendError", code |-> code]

\* the errors Reader::read returns
ReaderErrors ==
  {[type |-> "ReadError", code |-> c] : c \in {"EndOfStream", "IoError"}}

MissingCodecParameters == [type |-> "MissingCodecParameters", code |-> ""]
StreamNotFound == [type |-> "BackendError", code |-> "StreamNotFound"]
NoError == [type |-> "", code |-> ""]

\* the error codes of the codec other than EAGAIN
FatalAvErrors == {"EOF", "INVALIDDATA"}
\* what decoder.send_packet answers when it refuses a packet
SendErrors == {EAGAIN, "INVALIDDATA"}
\* what decoder.receive_frame answers
ReceiveAnswers == {"Ok", EAGAIN} \cup FatalAvErrors

(***************************************************************************)
(* Construction: Decoder::from_reader.                                     *)
(***************************************************************************)
CtorArgs ==
  [format : {PixelNone, "YUV420P"}, width : Dims, height : Dims,
   resize : {NoResize} \cup Resize,
   stream_time_base : {<<1, 2>>}, time_base : {<<1, 4>>}]

\* a slip: the height is not tested
MissingParameters_NoHeight(a) ==
  a.format = PixelNone \/ a.width = 0

\* the test that guards the construction of the Scaler
MissingParameters(a) ==
  a.format = PixelNone \/ a.width = 0 \/ a.height = 0

\* streamFound: best_video_stream_index() and input.stream() answer;
\* videoOk: codec.decoder().video() answers; scalerOk: AvScaler::get answers.
from_reader(a, streamFound, videoOk, scalerOk) ==
  LET target == resize_dims(a.resize, a.width, a.height)
      failed(e, gets) ==
        [result |-> "Err", err |-> e, size |-> <<0, 0>>, scaler |-> NoScaler,
         scalerGets |-> gets,
         resized |-> IF streamFound /\ videoOk THEN target ELSE None,
         time_base |-> None]
  IN  IF ~streamFound THEN failed(StreamNotFound, 0)
      ELSE IF ~videoOk THEN failed(BackendError("video"), 0)
      ELSE IF MissingParameters(a)
        THEN failed(MissingCodecParameters, 0)
      ELSE IF ~scalerOk THEN failed(BackendError("scaler"), 1)
      ELSE [result |-> "Ok", err |-> NoError,
            resized |-> target,
            time_base |-> a.time_base,
            size |-> <<a.width, a.height>>,
            scaler |-> [built |-> TRUE, src_format |-> a.format,
                        src_w |-> a.width, src_h |-> a.height,
                        dst_format |-> FRAME_PIXEL_FORMAT,
                        dst_w |-> target[1], dst_h |-> target[2]],
            scalerGets |-> 1]

NoResult ==
  [kind |-> "none", op |-> "", frame |-> None, time |-> None, err |-> NoError]

\* everything but the construction, before any call
Fresh ==
  /\ readerPos = 0
  /\ packet = None
  /\ sent = <<>>
  /\ emitted = 0
  /\ frame = None
  /\ frame_scaled = None
  /\ via = ""
  /\ iter = "none"
  /\ yielded = <<>>
  /\ iterPulls = 0
  /\ iterBase = 0
  /\ iterEnded = FALSE
  /\ calls = 0
  /\ result = NoResult
  /\ pulled = None
  /\ callReads = 0
  /\ callFeeds = 0
  /\ callPulls = 0
  /\ callScales = 0
  /\ lastPull = ""
  /\ lastOutcome = "none"
  /\ lastRead = None
  /\ lastFeed = ""
  /\ lastScale = ""
  /\ okCalls = 0
  /\ scalerFails = 0
  /\ eofSent = 0
  /\ eofAccepted = FALSE
  /\ drainPulls = 0
  /\ drainFrames = TRUE
  /\ drainEagain = TRUE
  /\ drainEnd = "none"

callVars ==
  << readerPos, packet, sent, emitted, frame, frame_scaled, via, iter,
     yielded, iterPulls, iterBase, iterEnded, calls, result, pulled, callReads, callFeeds, callPulls,
     callScales, lastPull, lastOutcome, lastRead, lastFeed, lastScale,
     okCalls, scalerFails >>
dropVars ==
  << eofSent, eofAccepted, drainPulls, drainFrames, drainEagain, drainEnd >>
ctorVars ==
  << args, ctor, size, scaler, scalerGets, resized, decoder_time_base >>

InitNew ==
  /\ args \in CtorArgs
  /\ pc = "new"
  /\ ctor = [result |-> "none", err |-> NoError]
  /\ size = <<0, 0>>
  /\ scaler = NoScaler
  /\ scalerGets = 0
  /\ resized = None
  /\ decoder_time_base = None
  /\ Fresh

FromReader ==
  /\ pc = "new"
  /\ \E streamFound \in BOOLEAN, videoOk \in BOOLEAN, scalerOk \in BOOLEAN :
       LET r == from_reader(args, streamFound, videoOk, scalerOk)
       IN  /\ ctor' = [result |-> r.result, err |-> r.err]
           /\ size' = r.size
           /\ scaler' = r.scaler
           /\ scalerGets' = r.scalerGets
           /\ resized' = r.resized
           /\ decoder_time_base' = r.time_base
           /\ pc' = IF r.result = "Ok" THEN "idle" ELSE "failed"
  /\ UNCHANGED << args, callVars, dropVars >>

NextNew == FromReader

SpecNew == InitNew /\ [][NextNew]_vars

\* from_reader with Resize::Fit over a wider range of dimensions: the small
\* ones, common picture sizes, and two u32 values that are not exactly
\* representable as f32 or lie next to one that is not
FitSamples == {450, 600, 800, 1080, 1920, 16777219, 16777220}
FitDims == Dims \cup FitSamples
FitArgs ==
  [format : {"YUV420P"}, width : FitDims, height : FitDims,
   resize : {<<"Fit", w, h>> : w \in FitDims, h \in FitDims},
   stream_time_base : {<<1, 2>>}, time_base : {<<1, 4>>}]

InitFit ==
  /\ args \in FitArgs
  /\ pc = "new"
  /\ ctor = [result |-> "none", err |-> NoError]
  /\ size = <<0, 0>>
  /\ scaler = NoScaler
  /\ scalerGets = 0
  /\ resized = None
  /\ decoder_time_base = None
  /\ Fresh

SpecFit == InitFit /\ [][NextNew]_vars

(***************************************************************************)
(* The collaborators: Reader, packets, the codec, the Scaler.              *)
(***************************************************************************)
MAX_DRAIN_ITERATIONS == 100

\* the packet the Reader yields as its id-th, stamped in the stream's time base
ReaderPacket(id) == [id |-> id, pts |-> id + 1, dts |-> id, rescaled |-> FALSE]

\* av_rescale_q: a * bq / cq, rounded to nearest, halves away from zero
av_rescale_q(a, bq, cq) ==
  LET b == bq[1] * cq[2]
      c == bq[2] * cq[1]
  IN  (a * b + (c \div 2)) \div c

\* a slip: the packet keeps the stamps of the stream's time base
rescale_ts_Skipped(p, from, to) == p

\* Packet::rescale_ts: an unset stamp stays unset
rescale_ts(p, from, to) ==
  [p EXCEPT !.pts = IF p.pts = NoPts THEN NoPts ELSE av_rescale_q(p.pts, from, to),
            !.dts = IF p.dts = NoPts THEN NoPts ELSE av_rescale_q(p.dts, from, to),
            !.rescaled = TRUE]

\* the frames the codec may hand out as its id-th, after the packets `fed`:
\* its pkt_dts is the dts of the packet that triggered it, its pts is set or not
CodecFrames(id, fed, sc) ==
  LET last == IF fed = <<>> THEN NoPts ELSE fed[Len(fed)].dts
  IN  {[id |-> id, format |-> sc.src_format, w |-> sc.src_w, h |-> sc.src_h,
        pts |-> t, pkt_dts |-> last, scaled |-> FALSE] : t \in {NoPts, id}}

\* what decoder.receive_frame(&mut frame) leaves in `frame`: a frame of the
\* codec when it answers Ok, the empty frame untouched otherwise
CodecAnswer(answer, id, fed, sc) ==
  IF answer = "Ok" THEN CodecFrames(id, fed, sc) ELSE {EmptyFrame}

\* scaler.run(&frame, &mut frame_scaled): the output has the target format
\* and dimensions and none of the input's properties
scaler_run(sc, f) ==
  [EmptyFrame EXCEPT !.id = f.id, !.format = sc.dst_format, !.w = sc.dst_w,
                     !.h = sc.dst_h, !.scaled = TRUE]

\* ffi::copy_frame_props(&frame, &mut frame_scaled)
copy_frame_props(src, dst) ==
  [dst EXCEPT !.pts = src.pts, !.pkt_dts = src.pkt_dts]

\* Time::new(Some(dts), time_base)
Time(dts, time_base) == [dts |-> dts, time_base |-> time_base]

(***************************************************************************)
(* decoder_receive_frame: the codec's answer as a Result<Option<RawFrame>>. *)
(* `answer` is what decoder.receive_frame returned, `f` the frame it       *)
(* filled in.                                                              *)
(***************************************************************************)
\* slips: a frame without a presentation timestamp is dropped and the loop
\* goes on; every failed pull is taken for "not enough data"
decoder_receive_frame_DropsFrame(answer, f) ==
  IF answer = "Ok" /\ f.pts # NoPts
    THEN [kind |-> "Ok", frame |-> Some(f), err |-> NoError]
  ELSE IF answer \in {"Ok", EAGAIN}
    THEN [kind |-> "Ok", frame |-> None, err |-> NoError]
  ELSE [kind |-> "Err", frame |-> None, err |-> BackendError(answer)]
decoder_receive_frame_SwallowsErrors(answer, f) ==
  IF answer = "Ok" THEN [kind |-> "Ok", frame |-> Some(f), err |-> NoError]
  ELSE [kind |-> "Ok", frame |-> None, err |-> NoError]

decoder_receive_frame_EagainFails(answer, f) ==
  IF answer = "Ok" THEN [kind |-> "Ok", frame |-> Some(f), err |-> NoError]
  ELSE [kind |-> "Err", frame |-> None, err |-> BackendError(answer)]

decoder_receive_frame(answer, f) ==
  IF answer = "Ok" THEN [kind |-> "Ok", frame |-> Some(f), err |-> NoError]
  ELSE IF answer = EAGAIN THEN [kind |-> "Ok", frame |-> None, err |-> NoError]
  ELSE [kind |-> "Err", frame |-> None, err |-> BackendError(answer)]

\* a slip: the Reader's error is wrapped as a backend error
read_error_Wrapped(e) == BackendError(e.code)

\* `self.reader.read(..)?`: the Reader's error is returned as it is
read_error(e) == e

\* the time base packets are stamped in: reader.input.stream(idx).time_base()
stream_time_base == args.stream_time_base

\* a slip: the Time is built from the frame's presentation timestamp
decode_timestamp_FromPts(f, time_base) == Time(f.pts, time_base)

\* Time::new(Some(frame.packet().dts), self.decoder_time_base)
decode_timestamp(f, time_base) == Time(f.pkt_dts, time_base)

\* slips: a pull without a frame is repeated without a new packet; the
\* packet at hand is fed again without a read
AfterPull_RetriesPull(fr) == IF fr = None THEN "receive" ELSE "scale"
AfterPull_Refeeds(fr) == IF fr = None THEN "send" ELSE "scale"

\* `while frame.is_none()`: where decode_raw goes after a pull
AfterPull(fr) == IF fr = None THEN "read" ELSE "scale"

\* slips: the unscaled frame is returned; the properties are not copied
FrameOut_Unscaled(fr, fs) == fr
FrameOut_NoCopy(fr, fs) == fs

\* copy_frame_props(&frame, &mut frame_scaled); Ok(frame_scaled)
FrameOut(fr, fs) == copy_frame_props(fr, fs)

\* a slip: the closure ends the sequence on an error (`.ok()`)
iter_item_EndsOnErr(r) == IF r.kind = "Ok" THEN Some(r) ELSE None

\* the closure of std::iter::from_fn: Some(self.decode_raw())
iter_item(r) == Some(r)

\* slips: the drain is skipped; the answer of send_eof is ignored
DrainAfterEof_Never(accepted) == FALSE
DrainAfterEof_Always(accepted) == TRUE

\* `if let Ok(()) = self.decoder.send_eof()`: whether Drop drains
DrainAfterEof(accepted) == accepted

\* a slip: an inclusive range, `0..=MAX_DRAIN_ITERATIONS`
DrainRange_Inclusive == 0..MAX_DRAIN_ITERATIONS

\* `0..MAX_DRAIN_ITERATIONS`: the turns of the drain loop
DrainRange == 0..(MAX_DRAIN_ITERATIONS - 1)

\* slips: the result of the pull is ignored; a pull without a frame ends
\* the loop
DrainBreaks_Never(r) == FALSE
DrainBreaks_OnNoFrame(r) == r.kind = "Err" \/ r.frame = None

\* `if self.decoder_receive_frame().is_err() { break; }`
DrainBreaks(r) == r.kind = "Err"

(***************************************************************************)
(* The life of a Decoder.                                                  *)
(***************************************************************************)
\* the Decoders the lifecycle starts from: two constructions that succeed
LifeArgs ==
  {a \in CtorArgs : /\ a.format = "YUV420P" /\ a.width = 2 /\ a.height = 2
                    /\ a.resize \in {NoResize, <<"Exact", 1, 1>>}}

Init ==
  /\ args \in LifeArgs
  /\ LET r == from_reader(args, TRUE, TRUE, TRUE)
     IN  /\ ctor = [result |-> r.result, err |-> r.err]
         /\ size = r.size
         /\ scaler = r.scaler
         /\ scalerGets = r.scalerGets
         /\ resized = r.resized
         /\ decoder_time_base = r.time_base
  /\ pc = "idle"
  /\ Fresh

Ok(op, f, t) ==
  [kind |-> "Ok", op |-> op, frame |-> Some(f), time |-> t, err |-> NoError]
Err(op, e) ==
  [kind |-> "Err", op |-> op, frame |-> None, time |-> None, err |-> e]

builtVars ==
  << args, ctor, size, scalerGets, resized, decoder_time_base >>
answerVars == << lastRead, lastFeed, lastScale >>
tallyVars == << okCalls, scalerFails >>
countVars == << callReads, callFeeds, callPulls, callScales >>
iterVars == << iter, iterPulls, iterBase >>
localVars == << packet, frame, frame_scaled >>
outVars == << result, lastOutcome, yielded, iterEnded >>

\* a call returns r: its locals are dropped; an iterator yields an item
Return(r, how) ==
  /\ pc' = "idle"
  /\ result' = r
  /\ lastOutcome' = how
  /\ packet' = None
  /\ frame' = None
  /\ frame_scaled' = None
  /\ IF iter = "none"
       THEN UNCHANGED << yielded, iterEnded >>
       ELSE LET item == iter_item(r)
            IN  /\ yielded' = IF item = None THEN yielded
                                ELSE Append(yielded, item[1].kind)
                /\ iterEnded' = (item = None)

\* the entry of decode_raw, reached from the public operation `op`
Enter(op) ==
  /\ pc = "idle"
  /\ calls < MaxCalls
  /\ calls' = calls + 1
  /\ via' = op
  /\ pc' = "read"
  /\ frame' = None
  /\ result' = NoResult
  /\ pulled' = None
  /\ callReads' = 0
  /\ callFeeds' = 0
  /\ callPulls' = 0
  /\ callScales' = 0
  /\ lastPull' = ""
  /\ lastRead' = None
  /\ lastFeed' = ""
  /\ lastScale' = ""
  /\ UNCHANGED << readerPos, packet, sent, emitted, frame_scaled, iter,
                  iterBase, yielded, iterEnded, lastOutcome, scaler,
                  tallyVars, builtVars, dropVars >>

\* decode_raw() called by the owner
DecodeRaw == iter = "none" /\ Enter("decode_raw") /\ UNCHANGED iterPulls

\* decode() called by the owner
Decode == iter = "none" /\ Enter("decode") /\ UNCHANGED iterPulls

\* decode_raw_iter() / decode_iter(): the iterator borrows the Decoder
NewIter ==
  /\ pc = "idle"
  /\ iter = "none"
  /\ calls < MaxCalls
  /\ \E kind \in {"decode_raw_iter", "decode_iter"} : iter' = kind
  /\ yielded' = <<>>
  /\ iterPulls' = 0
  /\ iterBase' = calls
  /\ iterEnded' = FALSE
  /\ UNCHANGED << pc, readerPos, sent, emitted, via, calls, result, pulled,
                  lastPull, lastOutcome, localVars, countVars, scaler,
                  answerVars, tallyVars, builtVars, dropVars >>

\* Iterator::next(): the closure of from_fn runs one decode call
IterNext ==
  /\ iter # "none"
  /\ ~iterEnded
  /\ iterPulls' = iterPulls + 1
  /\ Enter(IF iter = "decode_iter" THEN "decode" ELSE "decode_raw")

\* the iterator is dropped; the Decoder is the owner's again
IterDrop ==
  /\ pc = "idle"
  /\ iter # "none"
  /\ iter' = "none"
  /\ yielded' = <<>>
  /\ iterPulls' = 0
  /\ iterBase' = 0
  /\ iterEnded' = FALSE
  /\ UNCHANGED << pc, readerPos, sent, emitted, via, calls, result, pulled,
                  lastPull, lastOutcome, localVars, countVars, scaler,
                  answerVars, tallyVars, builtVars, dropVars >>

\* reader.read(..)?.into_inner() and packet.rescale_ts(..)
Read ==
  /\ pc = "read"
  /\ \/ /\ readerPos < MaxPackets
        /\ readerPos' = readerPos + 1
        /\ lastRead' = Some(ReaderPacket(readerPos + 1))
        /\ packet' = Some(rescale_ts(ReaderPacket(readerPos + 1),
                                     stream_time_base, decoder_time_base))
        /\ callReads' = callReads + 1
        /\ pc' = "send"
        /\ UNCHANGED << frame, frame_scaled, outVars >>
     \/ /\ \E e \in ReaderErrors :
             /\ lastRead' = Some(e)
             /\ Return(Err(via, read_error(e)), "reader")
        /\ UNCHANGED << readerPos, callReads >>
  /\ UNCHANGED << sent, emitted, via, calls, pulled, callFeeds, callPulls,
                  callScales, lastPull, lastFeed, lastScale, tallyVars,
                  iterVars, scaler, builtVars, dropVars >>

\* self.decoder.send_packet(&packet).map_err(Error::BackendError)?
SendPacket ==
  /\ pc = "send"
  /\ sent' = Append(sent, packet[1])
  /\ callFeeds' = callFeeds + 1
  /\ \/ /\ lastFeed' = "Ok"
        /\ pc' = "receive"
        /\ UNCHANGED << localVars, outVars >>
     \/ \E code \in SendErrors :
          /\ lastFeed' = code
          /\ Return(Err(via, BackendError(code)), "feed")
  /\ UNCHANGED << readerPos, emitted, via, calls, pulled, callReads,
                  callPulls, callScales, lastPull, lastRead, lastScale,
                  tallyVars, iterVars, scaler, builtVars, dropVars >>

\* frame = self.decoder_receive_frame()?, and the test of the while loop
ReceiveFrame ==
  /\ pc = "receive"
  /\ \E answer \in ReceiveAnswers :
       \E f \in CodecAnswer(answer, emitted + 1, sent, scaler) :
         LET r == decoder_receive_frame(answer, f)
         IN  /\ lastPull' = answer
             /\ callPulls' = callPulls + 1
             /\ emitted' = IF answer = "Ok" THEN emitted + 1 ELSE emitted
             /\ pulled' = IF answer = "Ok" THEN Some(f) ELSE pulled
             /\ IF r.kind = "Err"
                  THEN Return(Err(via, r.err), "pull")
                  ELSE /\ frame' = r.frame
                       /\ pc' = AfterPull(r.frame)
                       /\ UNCHANGED << packet, frame_scaled, outVars >>
  /\ UNCHANGED << readerPos, sent, via, calls, callReads, callFeeds,
                  callScales, answerVars, tallyVars, iterVars, scaler,
                  builtVars, dropVars >>

\* self.scaler.run(&frame, &mut frame_scaled).map_err(Error::BackendError)?
ScalerRun ==
  /\ pc = "scale"
  /\ callScales' = callScales + 1
  /\ \/ /\ lastScale' = "Ok"
        /\ frame_scaled' = Some(scaler_run(scaler, frame[1]))
        /\ pc' = "copy"
        /\ UNCHANGED << packet, frame, outVars, scalerFails >>
     \/ /\ lastScale' = "Err"
        /\ scalerFails' = scalerFails + 1
        /\ Return(Err(via, BackendError("scaler")), "scaler")
  /\ UNCHANGED << readerPos, sent, emitted, via, calls, pulled, callReads,
                  callFeeds, callPulls, lastPull, lastRead, lastFeed,
                  okCalls, iterVars, scaler, builtVars, dropVars >>

\* copy_frame_props(&frame, &mut frame_scaled); Ok(frame_scaled).  Inside
\* decode() the value goes to the conversion, else to the caller.
CopyProps ==
  /\ pc = "copy"
  /\ LET out == FrameOut(frame[1], frame_scaled[1])
     IN  IF via = "decode"
           THEN /\ pc' = "convert"
                /\ frame_scaled' = Some(out)
                /\ UNCHANGED << packet, frame, outVars >>
           ELSE Return(Ok(via, out, None), "ok")
  /\ okCalls' = okCalls + 1
  /\ UNCHANGED << readerPos, sent, emitted, via, calls, pulled, lastPull,
                  countVars, answerVars, scalerFails, iterVars, scaler,
                  builtVars, dropVars >>

\* decode(): the Time of the frame's packet dts, and the conversion
Convert ==
  /\ pc = "convert"
  /\ LET f == frame_scaled[1]
         timestamp == decode_timestamp(f, decoder_time_base)
     IN  \/ Return(Ok(via, f, Some(timestamp)), "ok")
         \/ Return(Err(via, BackendError("convert")), "convert")
  /\ UNCHANGED << readerPos, sent, emitted, via, calls, pulled, lastPull,
                  countVars, answerVars, tallyVars, iterVars, scaler,
                  builtVars, dropVars >>

\* Drop::drop: self.decoder.send_eof().  The owner gives the Decoder up:
\* what the calls returned is the caller's and is no longer followed.
\* Once drop returns, the fields (codec, scaler) are released.
DropSendEof ==
  /\ pc = "idle"
  /\ iter = "none"
  /\ eofSent' = eofSent + 1
  /\ \E accepted \in BOOLEAN :
       /\ eofAccepted' = accepted
       /\ IF DrainAfterEof(accepted)
            THEN pc' = "drain" /\ drainEnd' = "none" /\ UNCHANGED scaler
            ELSE pc' = "released" /\ drainEnd' = "rejected"
                 /\ scaler' = NoScaler
  /\ result' = NoResult
  /\ pulled' = None
  /\ via' = ""
  /\ callReads' = 0
  /\ callFeeds' = 0
  /\ callPulls' = 0
  /\ callScales' = 0
  /\ lastPull' = ""
  /\ lastRead' = None
  /\ lastFeed' = ""
  /\ lastScale' = ""
  /\ okCalls' = 0
  /\ scalerFails' = 0
  /\ UNCHANGED << drainPulls, drainFrames, drainEagain, readerPos, sent,
                  emitted, calls, lastOutcome, yielded, iterEnded, localVars,
                  iterVars, builtVars >>

\* one turn of `for _ in 0..MAX_DRAIN_ITERATIONS`: a pull whose frame is
\* dropped at once
DrainPull ==
  /\ pc = "drain"
  /\ drainPulls \in DrainRange
  /\ \E answer \in ReceiveAnswers :
       \E f \in CodecAnswer(answer, emitted + 1, sent, scaler) :
         LET r == decoder_receive_frame(answer, f)
         IN  /\ drainPulls' = drainPulls + 1
             /\ lastPull' = answer
             /\ drainFrames' = (drainFrames /\ answer # EAGAIN)
             /\ drainEagain' = (drainEagain /\ answer # "Ok")
             /\ IF DrainBreaks(r)
                  THEN pc' = "released" /\ drainEnd' = "error"
                       /\ scaler' = NoScaler
                  ELSE IF drainPulls + 1 \in DrainRange
                         THEN pc' = "drain" /\ drainEnd' = "none"
                              /\ UNCHANGED scaler
                         ELSE pc' = "released" /\ drainEnd' = "limit"
                              /\ scaler' = NoScaler
  /\ UNCHANGED << eofSent, eofAccepted, readerPos, sent, emitted, via, calls,
                  result, pulled, localVars, countVars, outVars, iterVars,
                  answerVars, tallyVars, builtVars >>

Next ==
  \/ DecodeRaw
  \/ Decode
  \/ NewIter
  \/ IterNext
  \/ IterDrop
  \/ Read
  \/ SendPacket
  \/ ReceiveFrame
  \/ ScalerRun
  \/ CopyProps
  \/ Convert
  \/ DropSendEof
  \/ DrainPull

Spec == Init /\ [][Next]_vars

\* The calls of a Decoder its owner keeps: no Drop.  A call that has been
\* entered runs on: the statements of decode_raw and decode follow one
\* another in one thread.  Whether another call is made is the caller's
\* choice.
CallStep ==
  \/ Read
  \/ SendPacket
  \/ ReceiveFrame
  \/ ScalerRun
  \/ CopyProps
  \/ Convert

NextCalls ==
  \/ DecodeRaw
  \/ Decode
  \/ NewIter
  \/ IterNext
  \/ IterDrop
  \/ CallStep

SpecCalls == Init /\ [][NextCalls]_vars /\ WF_vars(CallStep)

(***************************************************************************)
(* Properties.                                                             *)
(***************************************************************************)
\* the value decode_raw has just returned: to the caller, or inside decode()
\* to the conversion
RawReturn ==
  IF pc = "convert" THEN frame_scaled
  ELSE IF pc = "idle" /\ result.kind = "Ok" /\ result.op # "decode"
    THEN result.frame
  ELSE None

\* C1: in decode_raw a pull that answers EAGAIN never ends the call and is
\* never returned as an error, however often it occurs in a row: the call
\* goes on to read the next packet.  A call whose pulls answered nothing
\* but EAGAIN ends only when the Reader or the feed fails; a call returns a
\* frame only after a pull that yielded one.
C1_EagainNeverEndsCall ==
  /\ [][(pc = "receive" /\ lastPull' = EAGAIN)
          => (pc' = "read" /\ result' = NoResult /\ calls' = calls
              /\ callPulls' = callPulls + 1)]_vars
  /\ [](pc = "idle" /\ result.kind = "Err" /\ lastPull \in {"", EAGAIN}
          => lastOutcome \in {"reader", "feed"})
  /\ [](pc = "idle" /\ result.kind = "Err" /\ lastOutcome = "pull"
          => result.err.code # EAGAIN)
  /\ [](RawReturn # None => lastPull = "Ok")

\* two pulls in a row answered EAGAIN and the call is still reading
C1_Witness ==
  pc = "read" /\ callPulls = 2 /\ lastPull = EAGAIN /\ result = NoResult

C3_DrainBounded ==
  /\ [](drainPulls <= 100)
  /\ [](pc = "drain" => drainPulls < 100)
  /\ [][pc = "drain" => (drainPulls' = drainPulls + 1
                          /\ pc' \in {"drain", "released"})]_vars

\* every one of 100 pulls yielded a frame, and the Decoder is released
C3_Witness ==
  /\ pc = "released" /\ drainEnd = "limit" /\ drainPulls = 100
  /\ drainFrames /\ lastPull = "Ok"

\* C4: the drain stops at the first pull that fails: a pull that yields a
\* frame is followed by another pull (below the limit), a failing pull is
\* the last one, so n frames and a failure are exactly n+1 pulls; the
\* frames are kept nowhere and Drop hands no error to anyone.
C4_DrainStopsAtFirstFailure ==
  /\ [][pc = "drain" =>
          /\ drainPulls' = drainPulls + 1
          /\ (lastPull' \in FatalAvErrors
                => pc' = "released" /\ drainEnd' = "error")
          /\ (lastPull' = "Ok" /\ drainPulls' < 100 => pc' = "drain")
          /\ (lastPull' = "Ok" /\ drainPulls' = 100
                => pc' = "released" /\ drainEnd' = "limit")
          /\ frame' = None /\ frame_scaled' = None
          /\ result' = NoResult /\ emitted' = emitted]_vars
  /\ [](pc = "drain" => lastPull \notin FatalAvErrors)
  /\ [](pc = "released" /\ drainEnd = "error"
          => lastPull \in FatalAvErrors /\ result = NoResult)

\* three frames, then the fourth pull fails
C4_Witness ==
  /\ pc = "released" /\ drainEnd = "error" /\ drainPulls = 4
  /\ drainFrames /\ lastPull \in FatalAvErrors

\* C5: however the calls before went, Drop signals end-of-stream exactly
\* once and drains before the codec and the scaler are released: nothing is
\* released before, a Decoder at rest can always be dropped, and an
\* accepted end-of-stream is followed by the pulls of the drain.
C5_DropAlwaysDrains ==
  /\ (pc \in {"drain", "released"} => eofSent = 1)
  /\ (pc \notin {"drain", "released"}
        => eofSent = 0 /\ drainPulls = 0 /\ scaler.built)
  /\ (pc = "drain" => scaler.built /\ eofAccepted)
  /\ (pc = "released" /\ eofAccepted
        => drainPulls >= 1 /\ drainEnd \in {"error", "limit"})
  /\ (pc = "idle" /\ iter = "none" => ENABLED DropSendEof)

\* released after a drain that followed a call the Scaler failed
C5_Witness ==
  /\ pc = "released" /\ lastOutcome = "scaler" /\ eofSent = 1
  /\ eofAccepted /\ drainPulls >= 1

\* C6: when the codec rejects send_eof, Drop makes no pull and still ends,
\* with no error; pulls are made only after an accepted send_eof.
C6_RejectedEofNoPulls ==
  /\ (eofSent >= 1 /\ ~eofAccepted
        => pc = "released" /\ drainPulls = 0 /\ drainEnd = "rejected"
           /\ result = NoResult)
  /\ (drainPulls > 0 => eofAccepted)
  /\ (pc = "drain" => eofAccepted)

C6_Witness ==
  pc = "released" /\ eofSent = 1 /\ ~eofAccepted /\ drainPulls = 0

\* C7: from_reader with a codec that reports the pixel format None, or the
\* width 0, or the height 0, fails with MissingCodecParameters and makes no
\* Scaler, whatever the resize.
C7_MissingCodecParameters ==
  /\ ((/\ pc # "new"
       /\ (args.format = PixelNone \/ args.width = 0 \/ args.height = 0)
       /\ ctor.err \notin {StreamNotFound, BackendError("video")})
        => /\ ctor.result = "Err"
           /\ ctor.err = MissingCodecParameters
           /\ scalerGets = 0
           /\ ~scaler.built)
  /\ (ctor.err = MissingCodecParameters
        => args.format = PixelNone \/ args.width = 0 \/ args.height = 0)

\* the height alone is 0 and the resize is a Fit
C7_Witness ==
  /\ pc = "failed" /\ ctor.err = MissingCodecParameters
  /\ args.format # PixelNone /\ args.width > 0 /\ args.height = 0
  /\ args.resize[1] = "Fit" /\ scalerGets = 0

\* C8: a decode_raw that succeeds returns exactly one frame, the output of
\* the Scaler for the frame pulled in this call; when the Scaler fails the
\* call does not succeed.
C8_ReturnsScalerOutput ==
  /\ (RawReturn # None =>
        /\ Len(RawReturn) = 1
        /\ pulled # None
        /\ callScales = 1
        /\ RawReturn[1].scaled
        /\ RawReturn[1].id = pulled[1].id
        /\ RawReturn[1].format = scaler.dst_format
        /\ RawReturn[1].w = scaler.dst_w
        /\ RawReturn[1].h = scaler.dst_h)
  /\ (lastOutcome = "scaler" /\ pc = "idle"
        => result.kind = "Err" /\ result.err = BackendError("scaler"))

C8_Witness ==
  /\ pc = "idle" /\ result.kind = "Ok" /\ result.op = "decode_raw"
  /\ result.frame[1].scaled /\ result.frame[1].w = 1 /\ pulled[1].w = 2

\* C9: the frame decode_raw returns carries the stamps of the unscaled
\* frame it was made from: its pts is set whenever the source's is, and
\* equal to it.
C9_PropsCopied ==
  RawReturn # None =>
    /\ pulled # None
    /\ RawReturn[1].pts = pulled[1].pts
    /\ RawReturn[1].pkt_dts = pulled[1].pkt_dts

C9_Witness ==
  /\ pc = "idle" /\ result.kind = "Ok" /\ result.op = "decode_raw"
  /\ pulled[1].pts # NoPts /\ result.frame[1].pts = pulled[1].pts

\* C10 as stated: the sequence ends with the first error, so no item
\* follows an error.
C10_EndsAtFirstError ==
  \A i \in 1..Len(yielded) : yielded[i] = "Err" => i = Len(yielded)

\* C10, amended: every pull of the lazy sequence runs exactly one decode
\* call on the Decoder and yields its result, Ok or error; the sequence
\* never ends by itself, and after an error it can be pulled again.
C10_OneCallPerPull ==
  iter # "none" =>
    /\ ~iterEnded
    /\ calls - iterBase = iterPulls
    /\ Len(yielded) = IF pc = "idle" THEN iterPulls ELSE iterPulls - 1
    /\ (pc = "idle" /\ iterPulls > 0 => yielded[Len(yielded)] = result.kind)
    /\ (pc = "idle" /\ calls < MaxCalls => ENABLED IterNext)

\* an item follows an error
C10_Witness ==
  /\ iter # "none" /\ pc = "idle" /\ Len(yielded) >= 2
  /\ yielded[1] = "Err" /\ yielded[2] = "Ok"

\* C11 as stated: the n-th successful decode_raw call returns the n-th frame
\* pulled from the codec.  A frame the Scaler failed on is dropped with its
\* call, and the next successful call returns the frame after it.
C11_NthCallNthFrame ==
  RawReturn # None => RawReturn[1].id = okCalls

\* C11: frames are delivered in the order the codec emits them and none is
\* returned twice: a successful decode_raw call returns the scaled form of
\* the frame pulled in that call, which is the latest frame the codec handed
\* over; the frames before it were returned by the earlier successful calls
\* or dropped by the calls that ended at a Scaler failure, so the n-th
\* successful call returns frame n + k, k the number of those failures.
\* Between calls the Decoder holds no packet and no frame.
C11_InOrderNoneRepeated ==
  /\ (RawReturn # None =>
        /\ RawReturn[1].scaled
        /\ pulled # None
        /\ RawReturn[1].id = pulled[1].id
        /\ RawReturn[1].id = emitted
        /\ RawReturn[1].id = okCalls + scalerFails)
  /\ (pc = "idle" => packet = None /\ frame = None /\ frame_scaled = None)

\* the second successful call returns the third frame: the Scaler failed on
\* one before
C11_Witness ==
  /\ RawReturn # None
  /\ okCalls = 2
  /\ scalerFails = 1
  /\ RawReturn[1].id = 3
  /\ pc = "idle"

\* C12: the Timestamp decode returns is built from the packet dts of the
\* frame it returns (pkt_dts), not from the frame's pts, and it carries the
\* time base the Decoder took from the codec at construction.
C12_TimestampFromPacketDts ==
  /\ decoder_time_base = args.time_base
  /\ (pc = "idle" /\ result.kind = "Ok" /\ result.op = "decode" =>
        /\ result.time # None
        /\ result.time[1].dts = result.frame[1].pkt_dts
        /\ result.time[1].time_base = decoder_time_base)

\* decode returned a frame whose pts is set and differs from its packet dts
C12_Witness ==
  /\ pc = "idle"
  /\ result.kind = "Ok"
  /\ result.op = "decode"
  /\ result.frame[1].pts # NoPts
  /\ result.frame[1].pts # result.frame[1].pkt_dts
  /\ result.time = Some(Time(result.frame[1].pkt_dts, args.time_base))

\* C13 as stated: for native dimensions (w, h), both positive, and
\* Fit(tw, th) with tw < w or th < h, the resolved target dimensions are at
\* most tw wide and th high.
C13_FitWithinTarget ==
  (/\ pc # "new"
   /\ resized # None
   /\ args.resize[1] = "Fit"
   /\ args.width > 0
   /\ args.height > 0
   /\ (args.resize[2] < args.width \/ args.resize[3] < args.height))
  => (resized[1] <= args.resize[2] /\ resized[2] <= args.resize[3])

\* native (16777220, 1) with Fit(16777219, 1): the target width as f32 is
\* 16777220.0, the factor is 1.0 and the resolved width is 16777220
C13_Witness ==
  /\ pc = "idle"
  /\ args.width = 16777220
  /\ args.height = 1
  /\ args.resize = <<"Fit", 16777219, 1>>
  /\ resized = <<16777220, 1>>
  /\ scaler.dst_w = 16777220

\* C14: with Fit(tw, th), tw >= w and th >= h, the resolved target
\* dimensions are the native dimensions (w, h), and so are the Scaler's
\* target dimensions when the construction succeeds.
C14_FitNeverUpscales ==
  (/\ pc # "new"
   /\ resized # None
   /\ args.resize[1] = "Fit"
   /\ args.resize[2] >= args.width
   /\ args.resize[3] >= args.height)
  => /\ resized = <<args.width, args.height>>
     /\ (pc = "idle" => /\ scaler.dst_w = args.width
                        /\ scaler.dst_h = args.height
                        /\ scaler.src_w = scaler.dst_w
                        /\ scaler.src_h = scaler.dst_h)

\* a 800 x 450 picture in a 1920 x 1080 box stays 800 x 450
C14_Witness ==
  /\ pc = "idle"
  /\ args.width = 800
  /\ args.height = 450
  /\ args.resize = <<"Fit", 1920, 1080>>
  /\ resized = <<800, 450>>
  /\ scaler.dst_w = 800
  /\ scaler.dst_h = 450

\* C15: when the Reader's read fails inside decode_raw, end of stream
\* included, the call returns the Reader's error as it is, and in that turn
\* of the loop no packet is fed, no pull is made and the Scaler is not run:
\* what the call fed and pulled, it fed and pulled for the packets read
\* before.
C15_ReaderErrorReturned ==
  /\ [][(/\ pc = "read"
          /\ lastRead' # None
          /\ lastRead'[1] \in ReaderErrors)
        => /\ pc' = "idle"
           /\ result' = Err(via, lastRead'[1])
           /\ lastOutcome' = "reader"
           /\ sent' = sent
           /\ readerPos' = readerPos
           /\ emitted' = emitted
           /\ callFeeds' = callFeeds
           /\ callPulls' = callPulls
           /\ callScales' = callScales]_vars
  /\ [](pc = "idle" /\ result.kind = "Err" /\ lastOutcome = "reader" =>
          /\ result.err \in ReaderErrors
          /\ result.frame = None
          /\ callFeeds = callReads
          /\ callPulls = callReads
          /\ callScales = 0
          /\ lastFeed # "" => lastPull = EAGAIN)

\* a call fed one packet, pulled nothing, and ended when the Reader
\* reported the end of the stream
C15_Witness ==
  /\ pc = "idle"
  /\ lastOutcome = "reader"
  /\ result.kind = "Err"
  /\ result.err = [type |-> "ReadError", code |-> "EndOfStream"]
  /\ lastRead = Some(result.err)
  /\ callReads = 1
  /\ callFeeds = 1
  /\ callPulls = 1

\* C16: a backend failure in decode_raw other than the pull's EAGAIN ends
\* the call at once with an error and no frame.  After a failed send_packet
\* there is no pull and no further read; after a pull that failed with
\* another error than EAGAIN there is no further read and the Scaler is not
\* run; a failed send_packet and a failed scaler.run are returned as
\* BackendError.
C16_BackendFailureEndsCall ==
  /\ [][(pc = "send" /\ lastFeed' # "Ok")
        => /\ pc' = "idle"
           /\ result' = Err(via, BackendError(lastFeed'))
           /\ callPulls' = callPulls
           /\ callReads' = callReads
           /\ readerPos' = readerPos
           /\ callScales' = callScales]_vars
  /\ [][(pc = "receive" /\ lastPull' \in FatalAvErrors)
        => /\ pc' = "idle"
           /\ result'.kind = "Err"
           /\ result'.frame = None
           /\ result'.err.code = lastPull'
           /\ callReads' = callReads
           /\ readerPos' = readerPos
           /\ callScales' = callScales]_vars
  /\ [][(pc = "scale" /\ lastScale' # "Ok")
        => /\ pc' = "idle"
           /\ result'.kind = "Err"
           /\ result'.frame = None
           /\ result'.err.type = "BackendError"
           /\ readerPos' = readerPos]_vars
  /\ [](pc = "idle" /\ result.kind = "Err" =>
          /\ result.frame = None
          /\ (lastOutcome = "feed" =>
                /\ result.err.type = "BackendError"
                /\ callPulls = callFeeds - 1
                /\ callReads = callFeeds
                /\ callScales = 0)
          /\ (lastOutcome = "pull" =>
                /\ lastPull \in FatalAvErrors
                /\ callReads = callPulls
                /\ callScales = 0)
          /\ (lastOutcome = "scaler" =>
                /\ result.err.type = "BackendError"
                /\ callScales = 1))

\* a call read two packets and ended at a pull that failed with another
\* error than EAGAIN
C16_Witness ==
  /\ pc = "idle"
  /\ result.kind = "Err"
  /\ lastOutcome = "pull"
  /\ lastPull = "INVALIDDATA"
  /\ callReads = 2
  /\ callPulls = 2
  /\ callScales = 0

\* the stamp t of time base `from`, held in time base `to` without loss
Rebased(t, u, from, to) == u * (to[1] * from[2]) = t * (from[1] * to[2])

\* C17: every packet read from the Reader is rebased from the stream's time
\* base to the decoder's and then fed to the codec once, in read order,
\* before the next packet is read; a feed the codec accepted is followed by
\* one pull before any further read.
C17_EachPacketFedOnce ==
  /\ [](pc \notin {"new", "failed"} =>
          /\ Len(sent) = readerPos - (IF pc = "send" THEN 1 ELSE 0)
          /\ \A i \in 1..Len(sent) :
                /\ sent[i].id = i
                /\ sent[i].rescaled
                /\ Rebased(ReaderPacket(i).dts, sent[i].dts,
                           stream_time_base, decoder_time_base)
                /\ Rebased(ReaderPacket(i).pts, sent[i].pts,
                           stream_time_base, decoder_time_base)
          /\ (pc = "send" => /\ packet # None
                             /\ packet[1].id = readerPos
                             /\ packet[1].rescaled
                             /\ callReads = callFeeds + 1)
          /\ (pc = "receive" => /\ lastFeed = "Ok"
                                /\ callFeeds = callPulls + 1)
          /\ (pc = "read" => callReads = callFeeds /\ callFeeds = callPulls))
  /\ [][readerPos' # readerPos
        => /\ pc = "read"
           /\ pc' = "send"
           /\ readerPos' = readerPos + 1
           /\ Len(sent) = readerPos
           /\ callPulls = callFeeds]_vars
  /\ [][sent' # sent
        => /\ pc = "send"
           /\ sent' = Append(sent, packet[1])
           /\ (lastFeed' = "Ok" => pc' = "receive")]_vars
  /\ [][(pc = "receive" /\ pc' # "receive")
        => callPulls' = callPulls + 1]_vars

\* in its second call the Decoder reads and feeds the third packet, the two
\* before it having been fed and pulled for
C17_Witness ==
  /\ pc = "receive"
  /\ calls = 2
  /\ readerPos = 3
  /\ Len(sent) = 3
  /\ sent[3].dts = 6
  /\ callFeeds = callPulls + 1

\* a decode call is under way
Running == pc \in {"read", "send", "receive", "scale", "copy", "convert"}

\* C18: with a Reader of finitely many packets, after which every read
\* fails, every decode_raw call returns, with a frame or with an error, also
\* when the codec answers EAGAIN to every pull: each turn of the loop takes
\* one packet from the Reader, so a call makes no more pulls than it read
\* packets and reads no more packets than the Reader has.
C18_CallTerminates ==
  /\ [](Running => /\ callPulls <= callReads
                   /\ callFeeds <= callReads
                   /\ callReads <= readerPos
                   /\ readerPos <= MaxPackets)
  /\ (Running ~> pc = "idle")
  /\ \A n \in 1..MaxCalls : (calls = n ~> (calls = n /\ pc = "idle"))

\* the codec answered EAGAIN to every pull; the call took all packets of
\* the Reader and returned the Reader's end of stream
C18_Witness ==
  /\ pc = "idle"
  /\ calls = 1
  /\ emitted = 0
  /\ readerPos = MaxPackets
  /\ callPulls = MaxPackets
  /\ lastPull = EAGAIN
  /\ result.kind = "Err"
  /\ result.err = [type |-> "ReadError", code |-> "EndOfStream"]

\* C19: no decode call signals the end of the stream to the codec: send_eof
\* is made by Drop alone, once.  A decode call pulls only after a feed of
\* its own, so a call that gets no packet from the Reader returns no frame;
\* what the codec still holds then is pulled by the drain of Drop alone,
\* which hands nothing to the caller.
C19_EofOnlyInDrop ==
  /\ [](pc \notin {"drain", "released"} => eofSent = 0 /\ drainPulls = 0)
  /\ [](eofSent <= 1)
  /\ [][eofSent' # eofSent
        => /\ pc = "idle"
           /\ iter = "none"
           /\ pc' \in {"drain", "released"}]_vars
  /\ [](pc = "receive" => callPulls < callFeeds)
  /\ [](pc = "idle" /\ result.kind = "Ok" =>
          /\ callReads >= 1
          /\ callPulls = callFeeds
          /\ callFeeds = callReads
          /\ lastRead # None
          /\ lastRead[1] \notin ReaderErrors)
  /\ [][pc = "drain"
        => /\ result' = NoResult
           /\ yielded' = yielded
           /\ frame' = None
           /\ frame_scaled' = None
           /\ emitted' = emitted]_vars

\* the last call ended at the Reader's end, and the drain of Drop pulled a
\* frame the codec was still holding
C19_Witness ==
  /\ pc \in {"drain", "released"}
  /\ lastOutcome = "reader"
  /\ readerPos = MaxPackets
  /\ eofSent = 1
  /\ drainPulls = 1
  /\ lastPull = "Ok"
  /\ result = NoResult

\* C20: in the drain of Drop a pull that answers EAGAIN is not a failed
\* pull: it is one of the MAX_DRAIN_ITERATIONS attempts and the loop goes
\* on, so a codec that answers EAGAIN to every pull is pulled exactly
\* MAX_DRAIN_ITERATIONS times; only a pull that fails with another error
\* ends the drain before.
C20_EagainCountsInDrain ==
  /\ [][(pc = "drain" /\ lastPull' = EAGAIN)
        => /\ drainPulls' = drainPulls + 1
           /\ (drainPulls' < MAX_DRAIN_ITERATIONS
                 => pc' = "drain" /\ drainEnd' = "none")
           /\ (drainPulls' = MAX_DRAIN_ITERATIONS
                 => pc' = "released" /\ drainEnd' = "limit")]_vars
  /\ [](pc = "released" /\ eofAccepted /\ lastPull = EAGAIN =>
          /\ drainPulls = MAX_DRAIN_ITERATIONS
          /\ drainEnd = "limit")
  /\ [](pc = "released" /\ eofAccepted
          /\ drainPulls < MAX_DRAIN_ITERATIONS =>
          /\ drainEnd = "error"
          /\ lastPull \in FatalAvErrors)
  /\ [](pc = "drain" /\ drainPulls > 0 => lastPull \in {"Ok", EAGAIN})

\* the codec answered EAGAIN to every pull of the drain
C20_Witness ==
  /\ pc = "released"
  /\ eofAccepted
  /\ drainEagain
  /\ drainEnd = "limit"
  /\ lastPull = EAGAIN
  /\ drainPulls = MAX_DRAIN_ITERATIONS

====
